---- MODULE Spec2Model ----
(***************************************************************************)
(* FinLogBot (src/bot.py): a Telegram bot that extracts a transaction from *)
(* free text with an external oracle, appends it to a spreadsheet ledger   *)
(* and answers /summary and /breakdown by scanning the ledger.             *)
(*                                                                         *)
(* Values.  Python and JSON values are tagged records [tag, n, s]:         *)
(*   "absent"    key missing from a dict                                   *)
(*   "None"      Python None / JSON null                                   *)
(*   "bool"      n = 1 for True, 0 for False                               *)
(*   "num"       a finite number n (amounts are whole currency units)      *)
(*   "nonfinite" n = 0 for NaN, 1 for Infinity, -1 for -Infinity           *)
(*   "str"       the string s                                              *)
(*   "list"      a JSON array of length n                                  *)
(* A value returned by the oracle is a record with the same three fields   *)
(* plus the four keys of the response schema (tag "dict").                 *)
(***************************************************************************)
EXTENDS Integers, Sequences, FiniteSets, TLC

\* Longest ledger a free-text message is still handled on.
MaxRows == 2
\* Longest pre-existing sheet the aggregation commands are applied to.
MaxSheetRows == 2

VARIABLES
    ledger,     \* the sheet's data rows, in order (sheet.append_row / get_all_records)
    event,      \* the handler that ran last
    oracle,     \* outcome of the oracle request made by the last handler, "none" if none
    requests,   \* number of oracle requests the last handler made
    parsed,     \* what parse_expense returned to the last handler
    sent,       \* the bot.reply_to calls of the last handler, in order, with their delivery
    raised,     \* the last handler ended by an escaping exception ("" if it returned)
    appended    \* the last handler's sheet.append_row added its row

vars == <<ledger, event, oracle, requests, parsed, sent, raised, appended>>

----------------------------------------------------------------------------
\* Values

V(tag, n, s) == [tag |-> tag, n |-> n, s |-> s]
Absent == V("absent", 0, "")
PyNone == V("None", 0, "")
Bool(b) == V("bool", IF b THEN 1 ELSE 0, "")
Num(n) == V("num", n, "")
NaN == V("nonfinite", 0, "")
Infinity == V("nonfinite", 1, "")
Str(s) == V("str", 0, s)
List(n) == V("list", n, "")

Obj(v, d, c, a, t) ==
    [tag |-> v.tag, n |-> v.n, s |-> v.s,
     description |-> d, category |-> c, amount |-> a, type |-> t]
Plain(v) == Obj(v, Absent, Absent, Absent, Absent)
Dict(d, c, a, t) == Obj(V("dict", 0, ""), d, c, a, t)

\* bool(x) as `if parsed:` and `if not timestamp_str` evaluate it
Truthy(x) ==
    CASE x.tag \in {"absent", "None"} -> FALSE
      [] x.tag \in {"bool", "num", "list"} -> x.n # 0
      [] x.tag = "nonfinite" -> TRUE
      [] x.tag = "str" -> x.s # ""
      [] x.tag = "dict" -> \E k \in {"description", "category", "amount", "type"} :
                               x[k].tag # "absent"
      [] OTHER -> TRUE

\* dict.get(key, default)
Get(x, key, default) == IF x[key].tag = "absent" THEN default ELSE x[key]

\* isinstance(x, (int, float)): bool is a subclass of int
IsIntOrFloat(x) == x.tag \in {"num", "bool", "nonfinite"}

\* x <= 0 on an int, bool or float: every comparison with NaN is False
LeqZero(x) ==
    CASE x.tag \in {"num", "bool"} -> x.n <= 0
      [] x.tag = "nonfinite" -> x.n = -1
      [] OTHER -> FALSE

\* A comparison of kinds that forgets .lower()
LowerCaseSensitive(s) == s

\* str.lower()
Lower(s) ==
    CASE s = "Expense" -> "expense"
      [] s = "EXPENSE" -> "expense"
      [] s = "Income" -> "income"
      [] s = "INCOME" -> "income"
      [] s = "Transfer" -> "transfer"
      [] OTHER -> s

\* str.strip()
Strip(s) ==
    CASE s = " Rent " -> "Rent"
      [] s = "  " -> ""
      [] s = "Food " -> "Food"
      [] OTHER -> s

----------------------------------------------------------------------------
\* The clock: datetime.now().strftime("%Y-%m-%d %H:%M:%S")

Instant(y, mo, d, H, M, S) == [y |-> y, mo |-> mo, d |-> d, H |-> H, M |-> M, S |-> S]
Clock == {Instant(2024, 5, 1, 10, 0, 0), Instant(2025, 1, 1, 0, 0, 0)}

strftime(t) ==
    CASE t = Instant(2024, 5, 1, 10, 0, 0) -> "2024-05-01 10:00:00"
      [] t = Instant(2024, 5, 15, 9, 0, 0) -> "2024-05-15 09:00:00"
      [] t = Instant(2024, 12, 31, 23, 59, 59) -> "2024-12-31 23:59:59"
      [] t = Instant(2025, 1, 1, 0, 0, 0) -> "2025-01-01 00:00:00"

----------------------------------------------------------------------------
\* The extraction oracle and parse_expense

OracleFailures ==
    {"transport_error",   \* requests.post raises a RequestException
     "http_error",        \* raise_for_status raises HTTPError
     "body_not_json",     \* response.json() raises
     "no_structure",      \* candidates[0].content.parts[0].text missing or empty
     "text_not_json"}     \* json.loads(text) raises JSONDecodeError

Amounts == {Absent, PyNone, Str("150"), Bool(TRUE), Bool(FALSE), Num(0), Num(-5),
            NaN, Infinity, Num(150)}
Types == {Absent, PyNone, Num(5), Str("expense"), Str("Income"), Str("transfer")}

\* The JSON texts the oracle can answer with, as json.loads decodes them: values
\* that are no object, the empty object, and objects with every amount, with
\* every type, with both of them off the schema, and with keys left out.
OracleValues ==
    {Plain(PyNone), Plain(List(0)), Plain(List(1)), Plain(Num(5)), Plain(Str("abc"))}
    \cup {Dict(Absent, Absent, Absent, Absent)}
    \cup {Dict(Str("coffee"), Str("Rent"), a, Str("expense")) : a \in Amounts}
    \cup {Dict(Str("coffee"), Str("Rent"), Num(150), t) : t \in Types}
    \cup {Dict(Str("coffee"), Str("Rent"), PyNone, PyNone)}
    \cup {Dict(Absent, Absent, Num(150), Str("income"))}

OracleOutcomes ==
    {[status |-> f, value |-> Plain(PyNone)] : f \in OracleFailures}
    \cup {[status |-> "text_json", value |-> v] : v \in OracleValues}

\* parse_expense: every failure is caught and becomes None; a decoded text is
\* returned as it is, whatever JSON value it holds.
parse_expense(o) ==
    IF o.status = "text_json" THEN o.value ELSE Plain(PyNone)

----------------------------------------------------------------------------
\* The ledger store

Row(ts, d, c, a, t) ==
    [timestamp |-> ts, description |-> d, category |-> c, amount |-> a, type |-> t]

\* NaN and Infinity have no JSON encoding, so the request carrying the row fails.
Serialisable(row) == row.amount.tag # "nonfinite"

StoreOutcomes == {"ok", "error"}

\* sheet.append_row(row): the row goes after the last row, or the call raises.
append_row_ok(row, st) == st = "ok" /\ Serialisable(row)

\* An insert at the top of the sheet instead of after the last row
append_row_first(led, row) == <<row>> \o led

append_row(led, row) == Append(led, row)

\* A cell as get_all_records gives it back: a boolean reads as its displayed text.
ReadCell(c) ==
    CASE c.tag = "bool" -> Str(IF c.n = 1 THEN "TRUE" ELSE "FALSE")
      [] c.tag \in {"None", "absent"} -> Str("")
      [] OTHER -> c

get_all_records(led) ==
    [i \in 1..Len(led) |->
        Row(ReadCell(led[i].timestamp), ReadCell(led[i].description),
            ReadCell(led[i].category), ReadCell(led[i].amount), ReadCell(led[i].type))]

----------------------------------------------------------------------------
\* Replies

NoMonths == <<>>
Msg(kind, typ, desc, amount, cause, totals, months) ==
    [kind |-> kind, typ |-> typ, description |-> desc, amount |-> amount,
     cause |-> cause, totals |-> totals, months |-> months]
Text(kind) == Msg(kind, "", Absent, Absent, "", <<0, 0, 0>>, NoMonths)
ErrorText(kind, cause) == Msg(kind, "", Absent, Absent, cause, <<0, 0, 0>>, NoMonths)

\* format(amount, ".2f"): True prints as 1.00
Format2f(x) == IF x.tag = "bool" THEN Num(x.n) ELSE x

Reply(msg, ok) == [msg |-> msg, delivered |-> ok]

DeliveryError == "ApiTelegramException"

\* bot.reply_to(first) outside any try block
Send1(first, d) ==
    [sent |-> <<Reply(first, d[1])>>, raised |-> IF d[1] THEN "" ELSE DeliveryError]

\* try: ...; bot.reply_to(first)  except Exception: bot.reply_to(fallback)
Send2(first, fallback, d) ==
    IF d[1]
    THEN [sent |-> <<Reply(first, TRUE)>>, raised |-> ""]
    ELSE [sent |-> <<Reply(first, FALSE), Reply(fallback, d[2])>>,
          raised |-> IF d[2] THEN "" ELSE DeliveryError]

Deliveries == [1..2 -> BOOLEAN]

----------------------------------------------------------------------------
\* handle_message

NotCalled == Plain(Absent)

Outcome(led, p, o, n, s, app) ==
    [ledger |-> led, parsed |-> p, oracle |-> o, requests |-> n,
     sent |-> s.sent, raised |-> s.raised, appended |-> app]

Crash(exc) == [sent |-> <<>>, raised |-> exc]

handle_message(led, typing, o, now, st, d) ==
    IF ~typing
    THEN \* bot.send_chat_action raises before anything else runs
         Outcome(led, NotCalled, "none", 0, Crash(DeliveryError), FALSE)
    ELSE
    LET p == parse_expense(o) IN
    IF ~Truthy(p)
    THEN Outcome(led, p, o.status, 1, Send1(Text("not_understood"), d), FALSE)
    ELSE IF p.tag # "dict"
    THEN \* parsed.get on a list, number or string
         Outcome(led, p, o.status, 1, Crash("AttributeError"), FALSE)
    ELSE
    LET timestamp == Str(strftime(now))
        description == Get(p, "description", Str("N/A"))
        category == Get(p, "category", Str("N/A"))
        amount == Get(p, "amount", Num(0))
        rawtyp == Get(p, "type", Str("expense"))
    IN
    IF rawtyp.tag # "str"
    THEN \* .lower() on None or a number
         Outcome(led, p, o.status, 1, Crash("AttributeError"), FALSE)
    ELSE
    LET typ == Lower(rawtyp.s)
        row == Row(timestamp, description, category, amount, Str(typ))
        logged == Msg("logged", typ, description, Format2f(amount), "", <<0, 0, 0>>, NoMonths)
    IN
    IF ~IsIntOrFloat(amount) \/ LeqZero(amount)
    THEN Outcome(led, p, o.status, 1, Send1(Text("invalid_amount"), d), FALSE)
    ELSE IF append_row_ok(row, st)
    THEN Outcome(append_row(led, row), p, o.status, 1,
                 Send2(logged, ErrorText("log_failed", "reply_to"), d), TRUE)
    ELSE Outcome(led, p, o.status, 1,
                 Send1(ErrorText("log_failed", "append_row"), d), FALSE)

----------------------------------------------------------------------------
\* Parsing of sheet cells

Ok(v) == [exc |-> "", v |-> v]
Exc(e) == [exc |-> e, v |-> 0]

\* float(x)
Float(x) ==
    CASE x.tag \in {"num", "bool"} -> Ok(x.n)
      [] x.tag = "str" /\ x.s = "12" -> Ok(12)
      [] x.tag = "str" -> Exc("ValueError")
      [] OTHER -> Exc("TypeError")

\* str(x)
PyStr(x) ==
    CASE x.tag = "str" -> x.s
      [] x.tag = "num" -> ToString(x.n)
      [] x.tag = "bool" -> IF x.n = 1 THEN "True" ELSE "False"
      [] OTHER -> "None"

\* datetime.strptime(x, "%Y-%m-%d %H:%M:%S")
strptime(x) ==
    CASE x.tag # "str" -> Exc("TypeError")
      [] x.s = "2024-05-01 10:00:00" -> Ok(Instant(2024, 5, 1, 10, 0, 0))
      [] x.s = "2024-05-15 09:00:00" -> Ok(Instant(2024, 5, 15, 9, 0, 0))
      [] x.s = "2024-12-31 23:59:59" -> Ok(Instant(2024, 12, 31, 23, 59, 59))
      [] x.s = "2025-01-01 00:00:00" -> Ok(Instant(2025, 1, 1, 0, 0, 0))
      [] OTHER -> Exc("ValueError")

\* dt.strftime("%Y-%m"): the key 2024-05 is the number 202405, so that the
\* order of the keys as strings is the order of the numbers.
month_year_key(dt) == dt.y * 100 + dt.mo

MonthNames == <<"January", "February", "March", "April", "May", "June", "July",
                "August", "September", "October", "November", "December">>

\* dt.strftime("%B %Y")
month_name(dt) == <<MonthNames[dt.mo], dt.y>>

----------------------------------------------------------------------------
\* summary

RECURSIVE summary_loop(_, _, _)
summary_loop(records, i, acc) ==
    IF i > Len(records) \/ acc.exc # "" THEN acc
    ELSE
    LET r == records[i]
        amount == Float(r.amount)
        record_type == Lower(PyStr(r.type))
    IN
    IF amount.exc = "ValueError" THEN summary_loop(records, i + 1, acc)
    ELSE IF amount.exc # "" THEN [acc EXCEPT !.exc = amount.exc]
    ELSE IF record_type = "expense"
    THEN summary_loop(records, i + 1,
                      [acc EXCEPT !.total_expense = acc.total_expense + amount.v])
    ELSE IF record_type = "income"
    THEN summary_loop(records, i + 1,
                      [acc EXCEPT !.total_income = acc.total_income + amount.v])
    ELSE summary_loop(records, i + 1, acc)

summary_msg(acc) ==
    Msg("summary", "", Absent, Absent, "",
        <<acc.total_income, acc.total_expense, acc.total_income - acc.total_expense>>,
        NoMonths)

summary(led, rd, d) ==
    IF rd # "ok"
    THEN Send1(ErrorText("summary_error", "get_all_records"), d)
    ELSE
    LET acc == summary_loop(get_all_records(led), 1,
                            [exc |-> "", total_expense |-> 0, total_income |-> 0])
    IN
    IF acc.exc # ""
    THEN Send1(ErrorText("summary_error", acc.exc), d)
    ELSE Send2(summary_msg(acc), ErrorText("summary_error", "reply_to"), d)

----------------------------------------------------------------------------
\* monthly_breakdown_summary

NewMonth(dt) ==
    [month_name |-> month_name(dt), expenses |-> << >>, income |-> 0,
     total_monthly_expense |-> 0, total_monthly_income |-> 0]

\* d[k] = v on a dict
Put(dict, k, v) == [x \in DOMAIN dict \cup {k} |-> IF x = k THEN v ELSE dict[x]]

\* An accumulation that starts over on every row ("=" for "+=")
DictGetFresh(dict, k, default) == default

\* d.get(k, default)
DictGet(dict, k, default) == IF k \in DOMAIN dict THEN dict[k] ELSE default

\* One pass of the loop body over a row: the month table after it, or the
\* exception that leaves the loop.
breakdown_row(r, monthly_data) ==
    IF r.category.tag # "str"
    THEN [exc |-> "AttributeError", data |-> monthly_data]
    ELSE
    LET stripped == Strip(r.category.s)
        category == IF stripped = "" THEN "Uncategorized" ELSE stripped
        amount == Float(r.amount)
        typ == Lower(PyStr(r.type))
        skip == [exc |-> "", data |-> monthly_data]
    IN
    IF amount.exc # "" THEN skip
    ELSE IF ~Truthy(r.timestamp) \/ amount.v <= 0 THEN skip
    ELSE
    LET dt == strptime(r.timestamp) IN
    IF dt.exc # "" THEN skip
    ELSE
    LET key == month_year_key(dt.v)
        entry == DictGet(monthly_data, key, NewMonth(dt.v))
        updated ==
            IF typ = "expense"
            THEN [entry EXCEPT
                    !.expenses = Put(entry.expenses, category,
                                     DictGet(entry.expenses, category, 0) + amount.v),
                    !.total_monthly_expense = entry.total_monthly_expense + amount.v]
            ELSE IF typ = "income"
            THEN [entry EXCEPT
                    !.income = entry.income + amount.v,
                    !.total_monthly_income = entry.total_monthly_income + amount.v]
            ELSE entry
    IN [exc |-> "", data |-> Put(monthly_data, key, updated)]

RECURSIVE breakdown_loop(_, _, _)
breakdown_loop(records, i, acc) ==
    IF i > Len(records) \/ acc.exc # "" THEN acc
    ELSE breakdown_loop(records, i + 1, breakdown_row(records[i], acc.data))

\* sorted(keys) of the month table
RECURSIVE sorted_months(_)
sorted_months(keys) ==
    IF keys = {} THEN <<>>
    ELSE LET k == CHOOSE x \in keys : \A y \in keys : x <= y
         IN <<k>> \o sorted_months(keys \ {k})

\* The category names of the model in the order Python's string comparison gives.
CategoryOrder == <<"Food", "N/A", "Rent", "Uncategorized">>
CategoryRank(c) == CHOOSE i \in 1..Len(CategoryOrder) : CategoryOrder[i] = c

\* sorted(expenses.items(), key=lambda item: item[0])
RECURSIVE sorted_categories(_)
sorted_categories(expenses) ==
    IF DOMAIN expenses = {} THEN <<>>
    ELSE LET c == CHOOSE x \in DOMAIN expenses :
                     \A y \in DOMAIN expenses : CategoryRank(x) <= CategoryRank(y)
         IN <<[category |-> c, amount |-> expenses[c]]>>
            \o sorted_categories([x \in DOMAIN expenses \ {c} |-> expenses[x]])

Section(key, entry) ==
    [key |-> key, month_name |-> entry.month_name, income |-> entry.income,
     expenses |-> sorted_categories(entry.expenses),
     total_monthly_expense |-> entry.total_monthly_expense,
     monthly_balance |-> entry.total_monthly_income - entry.total_monthly_expense]

breakdown_msg(monthly_data) ==
    LET order == sorted_months(DOMAIN monthly_data) IN
    Msg("breakdown", "", Absent, Absent, "", <<0, 0, 0>>,
        [i \in 1..Len(order) |-> Section(order[i], monthly_data[order[i]])])

monthly_breakdown_summary(led, rd, d) ==
    IF rd # "ok"
    THEN Send1(ErrorText("breakdown_error", "get_all_records"), d)
    ELSE
    LET records == get_all_records(led)
        failed == ErrorText("breakdown_error", "reply_to")
    IN
    IF Len(records) = 0
    THEN Send2(Text("sheet_empty"), failed, d)
    ELSE
    LET acc == breakdown_loop(records, 1, [exc |-> "", data |-> << >>]) IN
    IF acc.exc # ""
    THEN Send1(ErrorText("breakdown_error", acc.exc), d)
    ELSE IF DOMAIN acc.data = {}
    THEN Send2(Text("no_valid_records"), failed, d)
    ELSE Send2(breakdown_msg(acc.data), failed, d)

\* start
start(d) == Send1(Text("help"), d)

----------------------------------------------------------------------------
\* Sheets that exist before the bot reads them.  Cells are what
\* get_all_records yields: strings and numbers.

May01 == Str("2024-05-01 10:00:00")
May15 == Str("2024-05-15 09:00:00")

RegularRows ==
    {Row(ta[1], Str("x"), Str(c), Num(ta[2]), Str(k)) :
        ta \in {<<May01, 20>>, <<May15, 30>>}, c \in {"Rent", " Rent "},
        k \in {"expense", "Income"}}

IrregularRows ==
    {Row(Str("2025-01-01 00:00:00"), Str("x"), Str("Rent"), Num(20), Str("expense")),
     Row(May01, Str("x"), Str("Food"), Num(20), Str("expense")),
     Row(May01, Str("x"), Str("  "), Num(20), Str("expense")),
     Row(May01, Str("x"), Num(123), Num(20), Str("expense")),
     Row(Str(""), Str("x"), Str("Rent"), Num(20), Str("expense")),
     Row(Str("2024-05-01"), Str("x"), Str("Rent"), Num(20), Str("income")),
     Row(Num(20240501), Str("x"), Str("Rent"), Num(20), Str("expense")),
     Row(May01, Str("x"), Str("Rent"), Num(0), Str("expense")),
     Row(May01, Str("x"), Str("Rent"), Num(-5), Str("expense")),
     Row(May01, Str("x"), Str("Rent"), Str(""), Str("expense")),
     Row(May01, Str("x"), Str("Rent"), Str("abc"), Str("income")),
     Row(May01, Str("x"), Str("Rent"), Str("12"), Str("expense")),
     Row(May01, Str("x"), Str("Rent"), Num(20), Str("transfer")),
     Row(May01, Str("x"), Str("Rent"), Num(20), Str("")),
     Row(May15, Str("x"), Str("Rent"), Num(30), Num(7))}

SheetRows == RegularRows \cup IrregularRows

Sheets == UNION {[1..n -> SheetRows] : n \in 0..MaxSheetRows}

----------------------------------------------------------------------------
\* The state machine: one action per handler, run to completion.  Each action
\* draws an outcome for every call its handler makes; the outcome of a reply
\* that is never attempted is fixed (d[2] when one reply_to suffices).

Idle(led) ==
    /\ ledger = led
    /\ event = "init"
    /\ oracle = "none"
    /\ requests = 0
    /\ parsed = NotCalled
    /\ sent = <<>>
    /\ raised = ""
    /\ appended = FALSE

Init == Idle(<<>>)

InitSheet == \E led \in Sheets : Idle(led)

Start ==
    \E d \in Deliveries :
        LET s == start(d) IN
        /\ d[2]
        /\ event' = "start"
        /\ sent' = s.sent
        /\ raised' = s.raised
        /\ oracle' = "none"
        /\ requests' = 0
        /\ parsed' = NotCalled
        /\ appended' = FALSE
        /\ UNCHANGED ledger

Summary ==
    \E rd \in StoreOutcomes, d \in Deliveries :
        LET s == summary(ledger, rd, d) IN
        /\ Len(s.sent) < 2 => d[2]
        /\ event' = "summary"
        /\ sent' = s.sent
        /\ raised' = s.raised
        /\ oracle' = "none"
        /\ requests' = 0
        /\ parsed' = NotCalled
        /\ appended' = FALSE
        /\ UNCHANGED ledger

Breakdown ==
    \E rd \in StoreOutcomes, d \in Deliveries :
        LET s == monthly_breakdown_summary(ledger, rd, d) IN
        /\ Len(s.sent) < 2 => d[2]
        /\ event' = "breakdown"
        /\ sent' = s.sent
        /\ raised' = s.raised
        /\ oracle' = "none"
        /\ requests' = 0
        /\ parsed' = NotCalled
        /\ appended' = FALSE
        /\ UNCHANGED ledger

\* The environment of one free-text message: an outcome for each call the
\* handler makes (chat action, oracle, clock, store, replies).  An outcome of
\* a call the handler never reaches has one fixed value.
DefaultOracle == [status |-> "transport_error", value |-> Plain(PyNone)]
DefaultNow == Instant(2024, 5, 1, 10, 0, 0)

AppendCalled(r) ==
    r.appended \/ (Len(r.sent) > 0 /\ r.sent[1].msg.cause = "append_row")

MessageInputs ==
    {in \in [typing : BOOLEAN, o : OracleOutcomes, now : Clock,
             st : StoreOutcomes, d : Deliveries] :
        LET r == handle_message(<<>>, in.typing, in.o, in.now, in.st, in.d) IN
        /\ r.requests = 0 => in.o = DefaultOracle
        /\ ~AppendCalled(r) => in.st = "ok" /\ in.now = DefaultNow
        /\ Len(r.sent) < 2 => in.d[2]
        /\ Len(r.sent) < 1 => in.d[1]}

HandleMessage ==
    /\ Len(ledger) < MaxRows
    /\ \E in \in MessageInputs :
        LET r == handle_message(ledger, in.typing, in.o, in.now, in.st, in.d) IN
        /\ event' = "message"
        /\ ledger' = r.ledger
        /\ oracle' = r.oracle
        /\ requests' = r.requests
        /\ parsed' = r.parsed
        /\ sent' = r.sent
        /\ raised' = r.raised
        /\ appended' = r.appended

Next == Start \/ Summary \/ Breakdown \/ HandleMessage

Spec == Init /\ [][Next]_vars

NextAgg == Summary \/ Breakdown

SpecAgg == InitSheet /\ [][NextAgg]_vars

----------------------------------------------------------------------------
\* Vocabulary of the properties

FirstMsg == sent[1].msg
LastRow == ledger[Len(ledger)]

\* The last handler was handle_message and the oracle gave it a non-empty object.
RecordExtracted == event = "message" /\ requests = 1 /\ parsed.tag = "dict" /\ Truthy(parsed)

PositiveFinite(a) == a.tag = "num" /\ a.n > 0

RECURSIVE SumOver(_, _)
SumOver(S, f) ==
    IF S = {} THEN 0
    ELSE LET x == CHOOSE y \in S : TRUE IN f[x] + SumOver(S \ {x}, f)

IsKind(cell, kind) ==
    /\ cell.tag = "str"
    /\ \/ kind = "expense" /\ cell.s \in {"expense", "Expense", "EXPENSE"}
       \/ kind = "income" /\ cell.s \in {"income", "Income", "INCOME"}

\* The number a cell stands for, where it stands for one.
IsNumeric(cell) == cell.tag = "num" \/ (cell.tag = "str" /\ cell.s = "12")
NumberOf(cell) == IF cell.tag = "num" THEN cell.n ELSE 12

AmountsOf(led) == [i \in 1..Len(led) |-> IF IsNumeric(led[i].amount) THEN NumberOf(led[i].amount) ELSE 0]

Counted(led, kind) == {i \in 1..Len(led) : IsNumeric(led[i].amount) /\ IsKind(led[i].type, kind)}

NormalCategory(cell) ==
    CASE cell.tag # "str" -> "?"
      [] cell.s \in {"Rent", " Rent "} -> "Rent"
      [] cell.s \in {"", "  "} -> "Uncategorized"
      [] OTHER -> cell.s

MonthKeys == {202405, 202412, 202501}
CategoryNames == {"Food", "N/A", "Rent", "Uncategorized"}

\* Row i of led has a non-empty timestamp in month k and an amount above zero.
InMonth(led, i, k) ==
    /\ Truthy(led[i].timestamp)
    /\ strptime(led[i].timestamp).exc = ""
    /\ month_year_key(strptime(led[i].timestamp).v) = k
    /\ IsNumeric(led[i].amount)
    /\ NumberOf(led[i].amount) > 0

MonthRows(led, k, kind) == {i \in 1..Len(led) : InMonth(led, i, k) /\ IsKind(led[i].type, kind)}

CategoryRows(led, k, c) == {i \in MonthRows(led, k, "expense") : NormalCategory(led[i].category) = c}

\* The ledger without the rows whose amount is a number <= 0.
RECURSIVE WithoutNonPositive(_)
WithoutNonPositive(led) ==
    IF led = <<>> THEN <<>>
    ELSE LET r == Head(led)
             f == Float(r.amount)
         IN IF f.exc = "" /\ f.v <= 0
            THEN WithoutNonPositive(Tail(led))
            ELSE <<r>> \o WithoutNonPositive(Tail(led))

----------------------------------------------------------------------------
\* C1: every handled event leaves the ledger as it was or adds exactly one row
\* at its end, and only a free-text message adds one; no row is ever changed,
\* moved or removed.
C1_AppendOnly ==
    [][\/ ledger' = ledger
       \/ /\ event' = "message"
          /\ Len(ledger') = Len(ledger) + 1
          /\ SubSeq(ledger', 1, Len(ledger)) = ledger]_vars

C1_Witness == event = "message" /\ appended /\ Len(ledger) = 2 /\ ledger[1] # ledger[2]

\* C2: a row is appended only when the extracted amount is a finite number
\* above zero; for every other amount the ledger is unchanged and the only
\* reply is the fixed "couldn't extract a valid positive amount" message.
C2_OnlyPositiveFiniteAccepted ==
    (RecordExtracted /\ parsed.type.tag \in {"absent", "str"}
       /\ ~PositiveFinite(parsed.amount)) =>
        /\ ~appended
        /\ Len(sent) = 1
        /\ FirstMsg.kind = "invalid_amount"

\* C3: every appended row has kind "expense" or "income", and a type that is
\* absent or unrecognised does not stop the record from being handled.
C3_KindIsExpenseOrIncome ==
    (RecordExtracted /\ PositiveFinite(parsed.amount)) =>
        /\ appended => LastRow.type \in {Str("expense"), Str("income")}
        /\ raised # "AttributeError"

\* C4: rows with an amount <= 0 change no aggregation output: /summary and
\* /breakdown report what they report on the ledger without those rows.
C4_NonPositiveExcluded ==
    /\ (event = "summary" /\ FirstMsg.kind = "summary") =>
          FirstMsg.totals =
              summary_msg(summary_loop(get_all_records(WithoutNonPositive(ledger)), 1,
                          [exc |-> "", total_expense |-> 0, total_income |-> 0])).totals
    /\ (event = "breakdown" /\ FirstMsg.kind = "breakdown") =>
          FirstMsg.months =
              breakdown_msg(breakdown_loop(get_all_records(WithoutNonPositive(ledger)), 1,
                            [exc |-> "", data |-> << >>]).data).months

\* C5: whenever the sheet can be read, /summary reports the sum of the amounts
\* of the expense rows, the sum of the amounts of the income rows (kinds
\* compared without case) and their difference; rows whose amount is no number
\* and rows of another kind count for nothing, and timestamps play no part.
C5_SummaryTotals ==
    event = "summary" =>
        IF FirstMsg.cause = "get_all_records"
        THEN FirstMsg.kind = "summary_error"
        ELSE /\ FirstMsg.kind = "summary"
             /\ LET income == SumOver(Counted(ledger, "income"), AmountsOf(ledger))
                    expense == SumOver(Counted(ledger, "expense"), AmountsOf(ledger))
                IN FirstMsg.totals = <<income, expense, income - expense>>

C5_Witness ==
    /\ event = "summary"
    /\ FirstMsg.kind = "summary"
    /\ FirstMsg.totals = <<30, 20, 10>>
    /\ \E i \in 1..Len(ledger) :
          /\ ledger[i].type = Str("Income")
          /\ \E j \in 1..Len(ledger) : strptime(ledger[j].timestamp).exc # ""

\* C6: a /breakdown report has, for every month and category, the sum of the
\* amounts of the expense rows of that month and (trimmed) category, and
\* for every month the sum of its income rows, the sum of its category
\* amounts as the expense total and income minus expense as the balance.
C6_BreakdownGroups ==
    (event = "breakdown" /\ FirstMsg.kind = "breakdown") =>
        LET months == FirstMsg.months
            amounts == AmountsOf(ledger)
        IN
        /\ \A k \in MonthKeys, c \in CategoryNames :
              CategoryRows(ledger, k, c) # {} =>
                  \E i \in 1..Len(months) :
                      /\ months[i].key = k
                      /\ \E j \in 1..Len(months[i].expenses) :
                            months[i].expenses[j].category = c
        /\ \A i \in 1..Len(months) :
              LET m == months[i] IN
              /\ \A j \in 1..Len(months) : months[j].key = m.key => j = i
              /\ \A j \in 1..Len(m.expenses) :
                    LET rows == CategoryRows(ledger, m.key, m.expenses[j].category) IN
                    /\ rows # {}
                    /\ m.expenses[j].amount = SumOver(rows, amounts)
                    /\ \A h \in 1..Len(m.expenses) :
                          m.expenses[h].category = m.expenses[j].category => h = j
              /\ m.income = SumOver(MonthRows(ledger, m.key, "income"), amounts)
              /\ m.total_monthly_expense =
                    SumOver(1..Len(m.expenses), [j \in 1..Len(m.expenses) |-> m.expenses[j].amount])
              /\ m.monthly_balance = m.income - m.total_monthly_expense

C6_Witness ==
    /\ event = "breakdown"
    /\ FirstMsg.kind = "breakdown"
    /\ Len(ledger) = 2
    /\ ledger[1].timestamp # ledger[2].timestamp
    /\ ledger[1].category # ledger[2].category
    /\ Len(FirstMsg.months) = 1
    /\ Len(FirstMsg.months[1].expenses) = 1
    /\ FirstMsg.months[1].expenses[1] = [category |-> "Rent", amount |-> 50]

\* C7: in /breakdown a month has a section exactly when an expense or income
\* row with a valid timestamp and an amount above zero falls in it, and a
\* ledger with no such row is answered with a "no data" message, not a report.
C7_OtherKindIgnored ==
    (event = "breakdown" /\ FirstMsg.kind # "breakdown_error") =>
        LET Has(k) == MonthRows(ledger, k, "expense") \cup MonthRows(ledger, k, "income") # {}
        IN
        IF \E k \in MonthKeys : Has(k)
        THEN /\ FirstMsg.kind = "breakdown"
             /\ \A k \in MonthKeys :
                   Has(k) <=> \E i \in 1..Len(FirstMsg.months) : FirstMsg.months[i].key = k
        ELSE FirstMsg.kind \in {"sheet_empty", "no_valid_records"}

\* C8: a row that cannot be processed never makes /summary or /breakdown
\* answer with their error reply.
C8_RowFailureNeverFatal ==
    (event \in {"summary", "breakdown"} /\ FirstMsg.kind \in {"summary_error", "breakdown_error"}) =>
        FirstMsg.cause = "get_all_records"

\* C9: when the oracle call fails or its answer is no JSON object at all,
\* parse_expense returns no record (None or a value the handler takes for none),
\* the handler does not raise, exactly one
\* request was made, nothing is appended and the one reply is the "couldn't
\* understand" message.
C9_ExtractionFailureUniform ==
    (event = "message" /\ oracle # "none"
       /\ (oracle \in OracleFailures \/ parsed.tag # "dict")) =>
        /\ ~Truthy(parsed)
        /\ requests = 1
        /\ raised # "AttributeError"
        /\ ~appended
        /\ Len(sent) = 1
        /\ FirstMsg.kind = "not_understood"

\* C10: the user is told "Logged" only if this request appended its row, and
\* "Failed to log" only if it appended none.
C10_ReplyAgreesWithLedger ==
    event = "message" =>
        \A i \in 1..Len(sent) :
            /\ (sent[i].delivered /\ sent[i].msg.kind = "logged") => appended
            /\ (sent[i].delivered /\ sent[i].msg.kind = "log_failed") => ~appended

====
